---- MODULE Spec2Model ----
(***************************************************************************)
(* Model of the season graph builder (src/python/graph_builder.py) and of  *)
(* the dynamic score calculator (src/python/dynamic_score_calculator.py).  *)
(* Player names are modelled as the naturals 1..NumNames, the empty name   *)
(* as 0; clubs and seasons are numbered from 1.                            *)
(*                                                                         *)
(*   SpecLoad     load_data line by line, then build_graph, run twice      *)
(*   SpecBuild    build_graph, one loop body per step                      *)
(*   SpecMain     build_graph, calculate_statistics, save_for_java         *)
(*   SpecCalc     the two scores and the two change lists on two graphs    *)
(*   SpecRecord   process_season_pair on two graph files                   *)
(*   SpecSeasons  two built seasons, exported and then compared            *)
(*   SpecClubs    process_all_clubs and generate_summary_report            *)
(*   SpecReport   generate_summary_report on a given result list           *)
(***************************************************************************)
EXTENDS Integers, Sequences, FiniteSets, TLC

\* ------------------------------------------------------------------ bounds
NumNames == 3
MaxListed == 4
CalcMaxNodes == 2
CalcMaxEdges == 2
RecMaxLines == 6
RecMaxCount == 2
MaxSquad == 6
MaxText == 5
MaxRanked == 5
NumClubs == 2
NumSeasons == 3
MaxMissing == 1
MaxResults == 11
MaxRuns == 2

Names == 1..NumNames

\* --------------------------------------------------------------- variables
VARIABLES
  lines, li, current_match, run, first_graph,   \* load_data
  matches, graph, player_stats, pc, mi, i, j,   \* FootballGraphBuilder
  statistics,                                   \* calculate_statistics
  G_a, G_b, call, cpc, out,                     \* the score functions
  file_t, file_t1, rpc, result,                 \* process_season_pair
  graphs_dir, ppc, ci, si, club_results,        \* process_all_clubs and
  all_results, written, report                  \* generate_summary_report

lvars == <<lines, li, current_match, run, first_graph>>
bvars == <<matches, graph, player_stats, pc, mi, i, j>>
svars == <<statistics>>
cvars == <<G_a, G_b, call, cpc, out>>
rvars == <<file_t, file_t1, rpc, result>>
pvars == <<graphs_dir, ppc, ci, si, club_results, all_results, written,
           report>>
vars == <<lines, li, current_match, run, first_graph, matches, graph, player_stats, pc, mi, i,
          j, statistics, G_a, G_b, call, cpc, out, file_t, file_t1, rpc,
          result, graphs_dir, ppc, ci, si, club_results, all_results, written,
          report>>

\* ----------------------------------------------------------------- helpers
Range(s) == {s[x] : x \in DOMAIN s}

Upd(f, k, v) == [x \in (DOMAIN f) \cup {k} |-> IF x = k THEN v ELSE f[x]]

SeqsUpTo(S, lo, hi) == UNION {[1..n -> S] : n \in lo..hi}

\* ------------------------------------------------- networkx.Graph (subset)
\* node    : insertion order of the node dictionary
\* matches : the 'matches' attribute of the nodes that carry one
\* adj     : per node, its neighbours in insertion order
\* weight  : the 'weight' attribute of an edge, keyed by its endpoint set
EmptyGraph == [node |-> <<>>, matches |-> <<>>, adj |-> <<>>, weight |-> <<>>]

has_node(G, p) == p \in Range(G.node)

ensure_node(G, p) ==
  IF has_node(G, p) THEN G
  ELSE [G EXCEPT !.node = Append(@, p), !.adj = Upd(@, p, <<>>)]

add_node(G, p, m) ==
  [ensure_node(G, p) EXCEPT !.matches = Upd(@, p, m)]

\* variant: the edge is never found
has_edge_never(G, u, v) == FALSE

has_edge(G, u, v) == has_node(G, u) /\ v \in Range(G.adj[u])

add_edge(G, u, v, w) ==
  LET G2 == ensure_node(ensure_node(G, u), v)
      a1 == IF v \in Range(G2.adj[u])
            THEN G2.adj ELSE [G2.adj EXCEPT ![u] = Append(@, v)]
      a2 == IF u \in Range(a1[v])
            THEN a1 ELSE [a1 EXCEPT ![v] = Append(@, u)]
  IN [G2 EXCEPT !.adj = a2, !.weight = Upd(@, {u, v}, w)]

inc_weight(G, u, v) == [G EXCEPT !.weight[{u, v}] = @ + 1]

inc_matches(G, p) == [G EXCEPT !.matches[p] = @ + 1]

\* Graph.edges(): for each node in node order, each neighbour not already
\* visited as a node, as the tuple <<node, neighbour>>.
RECURSIVE edges_from(_, _, _)
edges_from(G, a, b) ==
  IF a > Len(G.node) THEN <<>>
  ELSE LET n == G.node[a] IN
    IF b > Len(G.adj[n]) THEN edges_from(G, a + 1, 1)
    ELSE LET v == G.adj[n][b]
             seen == {G.node[x] : x \in 1..(a - 1)}
         IN IF v \in seen THEN edges_from(G, a, b + 1)
            ELSE <<(<<n, v>>)>> \o edges_from(G, a, b + 1)

edges(G) == edges_from(G, 1, 1)

number_of_nodes(G) == Len(G.node)
number_of_edges(G) == Len(edges(G))

\* ------------------------------------------------ FootballGraphBuilder
\* the lineups of n names, and the sequences of match records that list at
\* most b names in all
Lineups(n) == [1..n -> Names]

RECURSIVE MatchSeqs(_)
MatchSeqs(b) ==
  {<<>>} \cup
  UNION {{<<[players |-> l]>> \o rest :
            l \in Lineups(n), rest \in MatchSeqs(b - n)} : n \in 1..b}

NoStats == [matches |-> 0, partners |-> {}]
stats_of(ps, p) == IF p \in DOMAIN ps THEN ps[p] ELSE NoStats

\* variant: the pair loop starts at the player itself, players[i:]
RECURSIVE Norm_own_pair(_, _, _, _, _)
Norm_own_pair(ms, m, ph, a, b) ==
  IF m > Len(ms) THEN [pc |-> "done", mi |-> m, i |-> 1, j |-> 2]
  ELSE LET k == Len(ms[m].players) IN
    IF ph = "nodes"
    THEN IF a <= k THEN [pc |-> "nodes", mi |-> m, i |-> a, j |-> 2]
         ELSE Norm_own_pair(ms, m, "edges", 1, 1)
    ELSE IF a > k THEN Norm_own_pair(ms, m + 1, "nodes", 1, 2)
         ELSE IF b > k THEN Norm_own_pair(ms, m, "edges", a + 1, a + 1)
         ELSE [pc |-> "edges", mi |-> m, i |-> a, j |-> b]

\* loop control of build_graph: the next loop body to run from a position
RECURSIVE Norm(_, _, _, _, _)
Norm(ms, m, ph, a, b) ==
  IF m > Len(ms) THEN [pc |-> "done", mi |-> m, i |-> 1, j |-> 2]
  ELSE LET k == Len(ms[m].players) IN
    IF ph = "nodes"
    THEN IF a <= k THEN [pc |-> "nodes", mi |-> m, i |-> a, j |-> 2]
         ELSE Norm(ms, m, "edges", 1, 2)
    ELSE IF a > k THEN Norm(ms, m + 1, "nodes", 1, 2)
         ELSE IF b > k THEN Norm(ms, m, "edges", a + 1, a + 2)
         ELSE [pc |-> "edges", mi |-> m, i |-> a, j |-> b]

Goto(p) == /\ pc' = p.pc /\ mi' = p.mi /\ i' = p.i /\ j' = p.j

\* lines 62-67: the body of the node loop
node_step(G, player) ==
  inc_matches(IF ~has_node(G, player) THEN add_node(G, player, 0) ELSE G,
              player)

\* lines 72-77: the body of the pair loop
edge_step(G, player1, player2) ==
  IF has_edge(G, player1, player2) THEN inc_weight(G, player1, player2)
  ELSE add_edge(G, player1, player2, 1)

\* the graph and the loop position after n loop bodies of build_graph
RECURSIVE build_steps(_, _)
build_steps(ms, n) ==
  IF n = 0 THEN [graph |-> EmptyGraph, at |-> Norm(ms, 1, "nodes", 1, 2)]
  ELSE LET s == build_steps(ms, n - 1)
           l == ms[s.at.mi].players
       IN IF s.at.pc = "nodes"
          THEN [graph |-> node_step(s.graph, l[s.at.i]),
                at |-> Norm(ms, s.at.mi, "nodes", s.at.i + 1, 2)]
          ELSE [graph |-> edge_step(s.graph, l[s.at.i], l[s.at.j]),
                at |-> Norm(ms, s.at.mi, "edges", s.at.i, s.at.j + 1)]

\* the number of loop bodies build_graph runs: per record of k names, k
\* node bodies and k(k-1)/2 pair bodies
RECURSIVE loop_bodies(_, _)
loop_bodies(ms, m) ==
  IF m > Len(ms) THEN 0
  ELSE LET k == Len(ms[m].players)
       IN k + (k * (k - 1)) \div 2 + loop_bodies(ms, m + 1)

\* build_graph run to its end: the graph it leaves
build_graph(ms) == build_steps(ms, loop_bodies(ms, 1)).graph


\* ------------------------------------------------------- score functions
TopN == 10

Min(a, b) == IF a < b THEN a ELSE b

\* set(G.nodes())
node_set(G) == Range(G.node)

\* frozenset(edge) for an edge tuple
frozenset(e) == {e[1], e[2]}

\* set(frozenset(edge) for edge in G.edges())
edge_set(G) == LET es == edges(G) IN {frozenset(es[x]) : x \in 1..Len(es)}

\* variants: one-sided difference; union
symmetric_difference_onesided(A, B) == A \ B
symmetric_difference_union(A, B) == A \cup B

symmetric_difference(A, B) == (A \ B) \cup (B \ A)

\* a float quotient of two small counts, kept as the exact fraction
Zero == [num |-> 0, den |-> 1]
RatEq(a, b) == a.num * b.den = b.num * a.den

score_of(sd, un) ==
  IF Cardinality(un) = 0 THEN Zero
  ELSE [num |-> Cardinality(sd), den |-> Cardinality(un)]

\* variant: only the players who left are counted
calculate_v_left_only(G_t, G_t1) ==
  LET V_t == node_set(G_t)
      V_t1 == node_set(G_t1)
  IN score_of(V_t \ V_t1, V_t \cup V_t1)

calculate_v_dynamic_score(G_t, G_t1) ==
  LET V_t == node_set(G_t)
      V_t1 == node_set(G_t1)
  IN score_of(symmetric_difference(V_t, V_t1), V_t \cup V_t1)

\* variant: an edge is identified by its endpoints and its weight
calculate_e_weighted(G_t, G_t1) ==
  LET E_t == {<<e, G_t.weight[e]>> : e \in edge_set(G_t)}
      E_t1 == {<<e, G_t1.weight[e]>> : e \in edge_set(G_t1)}
  IN score_of(symmetric_difference(E_t, E_t1), E_t \cup E_t1)

calculate_e_dynamic_score(G_t, G_t1) ==
  LET E_t == edge_set(G_t)
      E_t1 == edge_set(G_t1)
  IN score_of(symmetric_difference(E_t, E_t1), E_t \cup E_t1)

\* Iteration order of a Python set is unspecified: list(S) is modelled as one
\* of the orders in Orders, over a ranking rk of the elements.
Orders == {"asc", "desc"}

RECURSIVE AscList(_, _)
AscList(S, rk) ==
  IF S = {} THEN <<>>
  ELSE LET x == CHOOSE y \in S : \A z \in S : rk[y] <= rk[z]
       IN <<x>> \o AscList(S \ {x}, rk)

Reverse(s) == [x \in 1..Len(s) |-> s[Len(s) + 1 - x]]

list_of(S, rk, o) == IF o = "asc" THEN AscList(S, rk) ELSE Reverse(AscList(S, rk))

name_rank(S) == [p \in S |-> p]

Least(e) == CHOOSE x \in e : \A y \in e : x <= y
Greatest(e) == CHOOSE x \in e : \A y \in e : x >= y
edge_rank(S) == [e \in S |-> Least(e) * 1000 + Greatest(e)]

\* variant: the list is left as it is
sort_desc_skipped(s, k) == s

\* variant: an element is put before the elements of equal key
insert_desc_before_equal(s, x, k) ==
  LET after == {n \in 1..Len(s) : s[n][k] <= x[k]}
      at == IF after = {} THEN Len(s) + 1
            ELSE CHOOSE n \in after : \A q \in after : n <= q
  IN SubSeq(s, 1, at - 1) \o <<x>> \o SubSeq(s, at, Len(s))

\* list.sort(key=lambda x: x[k], reverse=True): stable, descending
insert_desc(s, x, k) ==
  LET after == {n \in 1..Len(s) : s[n][k] < x[k]}
      at == IF after = {} THEN Len(s) + 1
            ELSE CHOOSE n \in after : \A q \in after : n <= q
  IN SubSeq(s, 1, at - 1) \o <<x>> \o SubSeq(s, at, Len(s))

\* from its state st: the sorted prefix and the next element to insert
RECURSIVE sort_desc_from(_, _, _)
sort_desc_from(st, s, k) ==
  IF st.n > Len(s) THEN st.acc
  ELSE sort_desc_from([acc |-> insert_desc(st.acc, s[st.n], k),
                       n |-> st.n + 1], s, k)

sort_desc(s, k) == sort_desc_from([acc |-> <<>>, n |-> 1], s, k)

\* G.nodes[p].get('matches', 0)
get_matches(G, p) == IF p \in DOMAIN G.matches THEN G.matches[p] ELSE 0

with_matches(G, ps) == [x \in 1..Len(ps) |-> <<ps[x], get_matches(G, ps[x])>>]

\* variant: every player of G_t1 is reported as joined
get_player_changes_all_joined(G_t, G_t1, o) ==
  LET V_t == node_set(G_t)
      V_t1 == node_set(G_t1)
      players_left == list_of(V_t \ V_t1, name_rank(V_t \ V_t1), o)
      players_joined == list_of(V_t1, name_rank(V_t1), o)
  IN [left |-> sort_desc(with_matches(G_t, players_left), 2),
      joined |-> sort_desc(with_matches(G_t1, players_joined), 2)]

get_player_changes(G_t, G_t1, o) ==
  LET V_t == node_set(G_t)
      V_t1 == node_set(G_t1)
      players_left == list_of(V_t \ V_t1, name_rank(V_t \ V_t1), o)
      players_joined == list_of(V_t1 \ V_t, name_rank(V_t1 \ V_t), o)
  IN [left |-> sort_desc(with_matches(G_t, players_left), 2),
      joined |-> sort_desc(with_matches(G_t1, players_joined), 2)]

\* p1, p2 = list(edge): the two names in either order
unpack(e, u) == IF u = "asc" THEN <<Least(e), Greatest(e)>>
                ELSE <<Greatest(e), Least(e)>>

with_weight(G, es, u) ==
  [x \in 1..Len(es) |->
     LET pp == unpack(es[x], u)
     IN <<pp[1], pp[2], G.weight[{pp[1], pp[2]}]>>]

\* raises ValueError when an edge to unpack is a one-element frozenset
get_edge_changes(G_t, G_t1, o, u) ==
  LET E_t == edge_set(G_t)
      E_t1 == edge_set(G_t1)
      edges_lost_set == E_t \ E_t1
      edges_gained_set == E_t1 \ E_t
      lost == list_of(edges_lost_set, edge_rank(edges_lost_set), o)
      gained == list_of(edges_gained_set, edge_rank(edges_gained_set), o)
  IN IF \E e \in edges_lost_set \cup edges_gained_set : Cardinality(e) # 2
     THEN [raised |-> TRUE, lost |-> <<>>, gained |-> <<>>]
     ELSE [raised |-> FALSE,
           lost |-> sort_desc(with_weight(G_t, lost, u), 3),
           gained |-> sort_desc(with_weight(G_t1, gained, u), 3)]

\* variant: the list is not cut
top_uncut(s) == s

top(s) == SubSeq(s, 1, Min(Len(s), TopN))

\* ------------------------------------------------------------- load_graph
EdgeLine(p1, p2, w, m1, m2) ==
  [kind |-> "EDGE", player1 |-> p1, player2 |-> p2,
   weight |-> w, matches1 |-> m1, matches2 |-> m2]
CommentLine == [kind |-> "#", player1 |-> 0, player2 |-> 0,
                weight |-> 0, matches1 |-> 0, matches2 |-> 0]

\* an EDGE line with five fields whose weight or matches field is no integer
BadEdgeLine == [kind |-> "EDGE?", player1 |-> 0, player2 |-> 0,
                weight |-> 0, matches1 |-> 0, matches2 |-> 0]

\* lines 31-33: int() raises ValueError on such a line
load_raises(f) == \E n \in DOMAIN f : f[n].kind = "EDGE?"

load_line(G, ln) ==
  IF ln.kind # "EDGE" THEN G
  ELSE LET g1 == IF ~has_node(G, ln.player1)
                 THEN add_node(G, ln.player1, ln.matches1) ELSE G
           g2 == IF ~has_node(g1, ln.player2)
                 THEN add_node(g1, ln.player2, ln.matches2) ELSE g1
       IN add_edge(g2, ln.player1, ln.player2, ln.weight)

\* the line loop from its state st: the graph so far and the next line
RECURSIVE load_from(_, _)
load_from(st, f) ==
  IF st.n > Len(f) THEN st.G
  ELSE load_from([G |-> load_line(st.G, f[st.n]), n |-> st.n + 1], f)

load_graph(f) == load_from([G |-> EmptyGraph, n |-> 1], f)

\* ---------------------------------------------------------- save_for_java
BlankLine == [kind |-> "", player1 |-> 0, player2 |-> 0,
              weight |-> 0, matches1 |-> 0, matches2 |-> 0]

\* the three '#' lines, a blank line, the '# Format' line, a blank line
FileHeader ==
  <<CommentLine, CommentLine, CommentLine, BlankLine, CommentLine, BlankLine>>

\* variant: the first player's count is written in both count fields
save_for_java_one_count(G) ==
  LET es == edges(G)
  IN FileHeader \o
     [x \in 1..Len(es) |->
        EdgeLine(es[x][1], es[x][2], G.weight[frozenset(es[x])],
                 G.matches[es[x][1]], G.matches[es[x][1]])]

\* the lines written for a graph: one EDGE line per edge of G.edges()
save_for_java(G) ==
  LET es == edges(G)
  IN FileHeader \o
     [x \in 1..Len(es) |->
        EdgeLine(es[x][1], es[x][2], G.weight[frozenset(es[x])],
                 G.matches[es[x][1]], G.matches[es[x][2]])]

\* round(x, 3) of a quotient, in thousandths; an exact tie goes to the even
\* neighbour (a tie needs a denominator that is a multiple of 16)
round3(q) ==
  LET n == q.num * 1000
      fl == n \div q.den
      r2 == 2 * (n % q.den)
      t == IF r2 < q.den THEN fl
           ELSE IF r2 > q.den THEN fl + 1
           ELSE IF fl % 2 = 0 THEN fl ELSE fl + 1
  IN [num |-> t, den |-> 1000]

\* the comparison record of process_season_pair (club and seasons omitted)
season_pair_record(f_t, f_t1, o, u) ==
  LET G_t == load_graph(f_t)
      G_t1 == load_graph(f_t1)
      pch == get_player_changes(G_t, G_t1, o)
      ech == get_edge_changes(G_t, G_t1, o, u)
  IN [raised |-> load_raises(f_t) \/ load_raises(f_t1) \/ ech.raised,
      v_score |-> round3(calculate_v_dynamic_score(G_t, G_t1)),
      e_score |-> round3(calculate_e_dynamic_score(G_t, G_t1)),
      stats |-> [total_players_t |-> number_of_nodes(G_t),
                 total_players_t1 |-> number_of_nodes(G_t1),
                 total_edges_t |-> number_of_edges(G_t),
                 total_edges_t1 |-> number_of_edges(G_t1)],
      players_left |-> top(pch.left),
      players_joined |-> top(pch.joined),
      edges_lost |-> top(ech.lost),
      edges_gained |-> top(ech.gained)]

\* ------------------------------------------------- values of idle variables
NoOutput == [v |-> Zero, e |-> Zero,
             players |-> [left |-> <<>>, joined |-> <<>>],
             edgesc |-> [raised |-> FALSE, lost |-> <<>>, gained |-> <<>>]]
NoResult == [raised |-> FALSE, v_score |-> Zero, e_score |-> Zero,
             stats |-> [total_players_t |-> 0, total_players_t1 |-> 0,
                        total_edges_t |-> 0, total_edges_t1 |-> 0],
             players_left |-> <<>>, players_joined |-> <<>>,
             edges_lost |-> <<>>, edges_gained |-> <<>>]

\* current_match: whether it is set, and the places of self.matches that
\* hold this very dictionary
NoMatch == [set |-> FALSE, at |-> {}]
NoStatistics == [density |-> Zero, top_players |-> <<>>, top_edges |-> <<>>,
                 degree_centrality |-> <<>>, top_central |-> <<>>]
NoDir == [present |-> FALSE, foreign |-> FALSE, files |-> <<>>]
NoReport == [written |-> FALSE, total_transitions |-> 0,
             avg_v_score |-> Zero, avg_e_score |-> Zero,
             top_v_changes |-> <<>>, top_e_changes |-> <<>>,
             most_stable_v |-> <<>>, most_stable_e |-> <<>>]

LoadIdle ==
  /\ lines = <<>> /\ li = 1 /\ current_match = NoMatch
  /\ run = 1 /\ first_graph = EmptyGraph
StatsIdle == statistics = NoStatistics
BuilderIdle ==
  /\ LoadIdle /\ StatsIdle
  /\ matches = <<>> /\ graph = EmptyGraph /\ player_stats = <<>>
  /\ pc = "idle" /\ mi = 1 /\ i = 1 /\ j = 2
ClubsIdle ==
  /\ graphs_dir = NoDir /\ ppc = "idle" /\ ci = 1 /\ si = 1
  /\ club_results = <<>> /\ all_results = <<>> /\ written = <<>>
  /\ report = NoReport
CalcIdle ==
  /\ G_a = EmptyGraph /\ G_b = EmptyGraph
  /\ call = 1 /\ cpc = "idle" /\ out = [c \in 1..2 |-> NoOutput]
RecordIdle ==
  /\ file_t = <<>> /\ file_t1 = <<>> /\ rpc = "idle" /\ result = NoResult

\* ------------------------------------------------ build_graph, step by step
InitBuild ==
  /\ LoadIdle /\ StatsIdle /\ CalcIdle /\ RecordIdle /\ ClubsIdle
  /\ matches \in MatchSeqs(MaxListed)
  /\ graph = EmptyGraph
  /\ player_stats = <<>>
  /\ pc = "start" /\ mi = 1 /\ i = 1 /\ j = 2

build_graph_enter ==
  /\ pc = "start"
  /\ Goto(Norm(matches, 1, "nodes", 1, 2))
  /\ UNCHANGED <<matches, graph, player_stats, cvars, rvars, lvars, svars, pvars>>

\* lines 61-67: one iteration of the node loop
build_graph_node ==
  /\ pc = "nodes"
  /\ LET player == matches[mi].players[i]
     IN /\ graph' = node_step(graph, player)
        /\ player_stats' = Upd(player_stats, player,
             [stats_of(player_stats, player) EXCEPT !.matches = @ + 1])
  /\ Goto(Norm(matches, mi, "nodes", i + 1, 2))
  /\ UNCHANGED <<matches, cvars, rvars, lvars, svars, pvars>>

add_partners(ps, p1, p2) ==
  LET s1 == Upd(ps, p1, [stats_of(ps, p1) EXCEPT !.partners = @ \cup {p2}])
  IN Upd(s1, p2, [stats_of(s1, p2) EXCEPT !.partners = @ \cup {p1}])

\* lines 72-74 and 80-81: the pair already has an edge
build_graph_edge_inc ==
  /\ pc = "edges"
  /\ LET player1 == matches[mi].players[i]
         player2 == matches[mi].players[j]
     IN /\ has_edge(graph, player1, player2)
        /\ graph' = edge_step(graph, player1, player2)
        /\ player_stats' = add_partners(player_stats, player1, player2)
  /\ Goto(Norm(matches, mi, "edges", i, j + 1))
  /\ UNCHANGED <<matches, cvars, rvars, lvars, svars, pvars>>

\* lines 75-77 and 80-81: first time the pair is seen
build_graph_edge_add ==
  /\ pc = "edges"
  /\ LET player1 == matches[mi].players[i]
         player2 == matches[mi].players[j]
     IN /\ ~has_edge(graph, player1, player2)
        /\ graph' = edge_step(graph, player1, player2)
        /\ player_stats' = add_partners(player_stats, player1, player2)
  /\ Goto(Norm(matches, mi, "edges", i, j + 1))
  /\ UNCHANGED <<matches, cvars, rvars, lvars, svars, pvars>>

NextBuild ==
  \/ build_graph_enter
  \/ build_graph_node
  \/ build_graph_edge_inc
  \/ build_graph_edge_add

SpecBuild == InitBuild /\ [][NextBuild]_vars

\* ------------------------------- calculate_statistics and save_for_java
TopPlayers == 10
TopPairs == 5
TopCentral == 5

first(s, n) == SubSeq(s, 1, Min(Len(s), n))

\* G.degree(): the neighbours of a node, a self-loop counted twice
degree(G, n) == Len(G.adj[n]) + (IF n \in Range(G.adj[n]) THEN 1 ELSE 0)

\* networkx.density: 0 with at most one node or no edge, else 2m / (n(n-1))
density(G) ==
  LET n == number_of_nodes(G)
      m == number_of_edges(G)
  IN IF m = 0 \/ n <= 1 THEN Zero ELSE [num |-> 2 * m, den |-> n * (n - 1)]

\* networkx.degree_centrality: 1 for every node of a graph with at most one
\* node, else degree * (1 / (n - 1)), kept as the exact fraction
degree_centrality(G) ==
  LET n == number_of_nodes(G)
  IN IF n <= 1 THEN [p \in node_set(G) |-> [num |-> 1, den |-> 1]]
     ELSE [p \in node_set(G) |-> [num |-> degree(G, p), den |-> n - 1]]

\* [(node, data['matches']) for node, data in graph.nodes(data=True)]
node_items(G) == [x \in 1..Len(G.node) |-> <<G.node[x], G.matches[G.node[x]]>>]

\* [(u, v, d['weight']) for u, v, d in graph.edges(data=True)]
edge_items(G) ==
  LET es == edges(G)
  IN [x \in 1..Len(es) |-> <<es[x][1], es[x][2], G.weight[frozenset(es[x])]>>]

\* degree_centrality.items() as <<node, numerator, denominator>>; the
\* denominator is the same for all nodes, so the numerator is the sort key
central_items(G) ==
  LET c == degree_centrality(G)
  IN [x \in 1..Len(G.node) |-> <<G.node[x], c[G.node[x]].num, c[G.node[x]].den>>]

statistics_of(G) ==
  [density |-> density(G),
   top_players |-> first(sort_desc(node_items(G), 2), TopPlayers),
   top_edges |-> first(sort_desc(edge_items(G), 3), TopPairs),
   degree_centrality |-> degree_centrality(G),
   top_central |-> first(sort_desc(central_items(G), 2), TopCentral)]

\* lineups without a repeated name, in ascending order of name
SetLineups(n) ==
  {l \in Lineups(n) : \A a, b \in 1..n : a < b => l[a] < l[b]}

RECURSIVE SetMatchSeqs(_)
SetMatchSeqs(b) ==
  {<<>>} \cup
  UNION {{<<[players |-> l]>> \o rest :
            l \in SetLineups(n), rest \in SetMatchSeqs(b - n)} : n \in 1..b}

InitMain ==
  /\ LoadIdle /\ StatsIdle /\ CalcIdle /\ RecordIdle /\ ClubsIdle
  /\ matches \in SetMatchSeqs(MaxRanked) \cup MatchSeqs(MaxListed - 1)
  /\ graph = EmptyGraph
  /\ player_stats = <<>>
  /\ pc = "start" /\ mi = 1 /\ i = 1 /\ j = 2

calculate_statistics ==
  /\ pc = "done"
  /\ statistics' = statistics_of(graph)
  /\ pc' = "stats"
  /\ UNCHANGED <<matches, graph, player_stats, mi, i, j,
                 lvars, cvars, rvars, pvars>>

\* the builder's graph is written to its graph file
main_save_for_java ==
  /\ pc = "stats"
  /\ file_t' = save_for_java(graph)
  /\ pc' = "saved"
  /\ UNCHANGED <<matches, graph, player_stats, mi, i, j, file_t1, rpc, result,
                 lvars, svars, cvars, pvars>>

NextMain ==
  \/ NextBuild
  \/ calculate_statistics
  \/ main_save_for_java

SpecMain == InitMain /\ [][NextMain]_vars

\* ---------------------------------------------- load_data, line by line
\* a stripped line: a comment, blank or other line ("#"), a MATCH: header,
\* or a PLAYERS: line with the names written on it
TextLine(kind, names) == [kind |-> kind, names |-> names]

\* the name that is the empty string
EmptyName == 0

\* [p.strip() for p in players_str.split(',')]: the text with no name in it
\* splits into one empty string
split_players(names) == IF names = <<>> THEN <<EmptyName>> ELSE names

\* the lines that cost c: one per line and one per name written
LinesOfCost(c) ==
  IF c = 1
  THEN {TextLine("#", <<>>), TextLine("MATCH", <<>>),
        TextLine("PLAYERS", <<>>)}
  ELSE {TextLine("PLAYERS", l) : l \in Lineups(c - 1)}

RECURSIVE Texts(_)
Texts(b) ==
  {<<>>} \cup
  UNION {{<<ln>> \o rest : ln \in LinesOfCost(c), rest \in Texts(b - c)} :
           c \in 1..b}

InitLoad ==
  /\ StatsIdle /\ CalcIdle /\ RecordIdle /\ ClubsIdle
  /\ lines \in Texts(MaxText)
  /\ li = 1 /\ current_match = NoMatch
  /\ run = 1 /\ first_graph = EmptyGraph
  /\ matches = <<>> /\ graph = EmptyGraph /\ player_stats = <<>>
  /\ pc = "load" /\ mi = 1 /\ i = 1 /\ j = 2

\* lines 30-31, and lines that start neither 'MATCH:' nor 'PLAYERS:'
load_data_skip ==
  /\ pc = "load" /\ li <= Len(lines)
  /\ lines[li].kind = "#"
  /\ li' = li + 1
  /\ UNCHANGED <<lines, current_match, run, first_graph,
                 bvars, svars, cvars, rvars, pvars>>

\* lines 35-40: a new dictionary, held by no place of self.matches yet
load_data_match ==
  /\ pc = "load" /\ li <= Len(lines)
  /\ lines[li].kind = "MATCH"
  /\ current_match' = [set |-> TRUE, at |-> {}]
  /\ li' = li + 1
  /\ UNCHANGED <<lines, run, first_graph, bvars, svars, cvars, rvars, pvars>>

\* lines 43-48: the players are stored in the current dictionary, which
\* changes every place that already holds it, and it is appended
load_data_players ==
  /\ pc = "load" /\ li <= Len(lines)
  /\ lines[li].kind = "PLAYERS"
  /\ IF current_match.set
     THEN LET players == split_players(lines[li].names)
          IN /\ matches' =
                  Append([x \in DOMAIN matches |->
                            IF x \in current_match.at
                            THEN [players |-> players] ELSE matches[x]],
                         [players |-> players])
             /\ current_match' =
                  [current_match EXCEPT !.at = @ \cup {Len(matches) + 1}]
     ELSE UNCHANGED <<matches, current_match>>
  /\ li' = li + 1
  /\ UNCHANGED <<lines, run, first_graph, graph, player_stats, pc, mi, i, j,
                 svars, cvars, rvars, pvars>>

\* line 51, then build_graph is called
load_data_return ==
  /\ pc = "load" /\ li > Len(lines)
  /\ pc' = "start"
  /\ UNCHANGED <<lvars, matches, graph, player_stats, mi, i, j,
                 svars, cvars, rvars, pvars>>

\* load_data and build_graph are called once more on the same instance,
\* over the same file: line 25 resets current_match and nothing else, so
\* self.matches, self.graph and self.player_stats are those the earlier run
\* left; first_graph keeps the graph of the first run
load_data_again ==
  /\ pc = "done" /\ run < MaxRuns
  /\ run' = run + 1
  /\ first_graph' = IF run = 1 THEN graph ELSE first_graph
  /\ li' = 1 /\ current_match' = NoMatch
  /\ pc' = "load"
  /\ UNCHANGED <<lines, matches, graph, player_stats, mi, i, j,
                 svars, cvars, rvars, pvars>>

NextLoad ==
  \/ load_data_skip
  \/ load_data_match
  \/ load_data_players
  \/ load_data_return
  \/ load_data_again
  \/ NextBuild

SpecLoad == InitLoad /\ [][NextLoad]_vars

\* ------------------------------------------- the score functions, called
CalcNames == {1, 2, 3}
Counts == {1, 2}

\* node insertion orders: ascending or descending by name
NodeSeqs ==
  {s \in SeqsUpTo(CalcNames, 0, CalcMaxNodes) :
     \/ \A a, b \in DOMAIN s : a < b => s[a] < s[b]
     \/ \A a, b \in DOMAIN s : a < b => s[a] > s[b]}

PairsOver(S) == {{u, v} : u, v \in S}

RECURSIVE AddNodes(_, _, _, _)
AddNodes(G, ns, n, c) ==
  IF n > Len(ns) THEN G ELSE AddNodes(add_node(G, ns[n], c), ns, n + 1, c)

RECURSIVE AddEdges(_, _, _, _)
AddEdges(G, es, n, c) ==
  IF n > Len(es) THEN G
  ELSE AddEdges(add_edge(G, Least(es[n]), Greatest(es[n]), c), es, n + 1, c)

\* the graph with nodes ns (in this order), edges E, all attributes c
MkGraph(ns, E, c) ==
  AddEdges(AddNodes(EmptyGraph, ns, 1, c), AscList(E, edge_rank(E)), 1, c)

CalcGraphs ==
  UNION {{MkGraph(ns, E, c) :
            E \in {X \in SUBSET PairsOver(Range(ns)) :
                     Cardinality(X) <= CalcMaxEdges},
            c \in Counts} : ns \in NodeSeqs}

InitCalc ==
  /\ BuilderIdle /\ RecordIdle /\ ClubsIdle
  /\ G_a \in CalcGraphs /\ G_b \in CalcGraphs
  /\ call = 1 /\ cpc = "v" /\ out = [c \in 1..2 |-> NoOutput]

\* call 1 passes (G_a, G_b), call 2 passes (G_b, G_a)
Arg_t(c) == IF c = 1 THEN G_a ELSE G_b
Arg_t1(c) == IF c = 1 THEN G_b ELSE G_a

call_calculate_v_dynamic_score ==
  /\ cpc = "v"
  /\ out' = [out EXCEPT ![call].v =
               calculate_v_dynamic_score(Arg_t(call), Arg_t1(call))]
  /\ cpc' = "e"
  /\ UNCHANGED <<G_a, G_b, call, bvars, rvars, lvars, svars, pvars>>

call_calculate_e_dynamic_score ==
  /\ cpc = "e"
  /\ out' = [out EXCEPT ![call].e =
               calculate_e_dynamic_score(Arg_t(call), Arg_t1(call))]
  /\ cpc' = "players"
  /\ UNCHANGED <<G_a, G_b, call, bvars, rvars, lvars, svars, pvars>>

\* variant: the matches attributes are read with pop('matches', 0), which
\* takes them out of the nodes
call_get_player_changes_pop ==
  /\ cpc = "players"
  /\ \E o \in Orders :
       out' = [out EXCEPT ![call].players =
                 get_player_changes(Arg_t(call), Arg_t1(call), o)]
  /\ cpc' = "edges"
  /\ LET kept(G, Gx) == [p \in DOMAIN G.matches \cap node_set(Gx) |->
                          G.matches[p]]
     IN /\ G_a' = [G_a EXCEPT !.matches = kept(G_a, G_b)]
        /\ G_b' = [G_b EXCEPT !.matches = kept(G_b, G_a)]
  /\ UNCHANGED <<call, bvars, rvars, lvars, svars, pvars>>

call_get_player_changes ==
  /\ cpc = "players"
  /\ \E o \in Orders :
       out' = [out EXCEPT ![call].players =
                 get_player_changes(Arg_t(call), Arg_t1(call), o)]
  /\ cpc' = "edges"
  /\ UNCHANGED <<G_a, G_b, call, bvars, rvars, lvars, svars, pvars>>

call_get_edge_changes ==
  /\ cpc = "edges"
  /\ \E o \in Orders, u \in Orders :
       out' = [out EXCEPT ![call].edgesc =
                 get_edge_changes(Arg_t(call), Arg_t1(call), o, u)]
  /\ IF call = 1 THEN call' = 2 /\ cpc' = "v"
                 ELSE call' = call /\ cpc' = "end"
  /\ UNCHANGED <<G_a, G_b, bvars, rvars, lvars, svars, pvars>>

NextCalc ==
  \/ call_calculate_v_dynamic_score
  \/ call_calculate_e_dynamic_score
  \/ call_get_player_changes
  \/ call_get_edge_changes

SpecCalc == InitCalc /\ [][NextCalc]_vars

\* --------------------------------------------------- process_season_pair
Header == <<CommentLine>>

\* two players who started m matches, all of them together
PairLine(x, m) == EdgeLine(2 * x - 1, 2 * x, m, m, m)

BigFiles ==
  UNION {{Header \o [x \in 1..n |-> PairLine(x, ms[x])] :
            ms \in [1..n -> 1..RecMaxCount]} : n \in 0..RecMaxLines}

SmallFiles ==
  {Header, Header \o <<PairLine(1, 1)>>,
   Header \o <<PairLine(RecMaxLines + 1, 1)>>}

InitRecord ==
  /\ BuilderIdle /\ CalcIdle /\ ClubsIdle
  /\ \E big \in BigFiles, small \in SmallFiles :
       \/ file_t = big /\ file_t1 = small
       \/ file_t = small /\ file_t1 = big
  /\ rpc = "call" /\ result = NoResult

process_season_pair ==
  /\ rpc = "call"
  /\ \E o \in Orders, u \in Orders :
       LET r == season_pair_record(file_t, file_t1, o, u)
       IN IF r.raised THEN rpc' = "raised" /\ result' = NoResult
          ELSE rpc' = "returned" /\ result' = r
  /\ UNCHANGED <<file_t, file_t1, bvars, cvars, lvars, svars, pvars>>

NextRecord == process_season_pair

SpecRecord == InitRecord /\ [][NextRecord]_vars

\* ------------------------- two seasons: build, save_for_java, then compare
\* a squad of n players who all start one match; those in S start a second
Squad(n, S) ==
  (IF n = 0 THEN <<>> ELSE <<[players |-> [x \in 1..n |-> x]]>>) \o
  (IF S = {} THEN <<>> ELSE <<[players |-> AscList(S, name_rank(S))]>>)

SquadSeasons == UNION {{Squad(n, S) : S \in SUBSET (1..n)} : n \in 0..MaxSquad}

\* short seasons: players without a partner, a name listed twice
ShortSeasons ==
  {<<>>,
   <<[players |-> <<1, 2>>], [players |-> <<1, 2>>], [players |-> <<3>>]>>,
   <<[players |-> <<1, 3>>], [players |-> <<4>>]>>,
   <<[players |-> <<MaxSquad + 1, MaxSquad + 2>>]>>,
   <<[players |-> <<1, 1, 2>>]>>}

InitSeasons ==
  /\ BuilderIdle /\ ClubsIdle
  /\ \E a \in SquadSeasons \cup ShortSeasons, b \in ShortSeasons :
       \/ G_a = build_graph(a) /\ G_b = build_graph(b)
       \/ G_a = build_graph(b) /\ G_b = build_graph(a)
  /\ call = 1 /\ cpc = "idle" /\ out = [c \in 1..2 |-> NoOutput]
  /\ file_t = <<>> /\ file_t1 = <<>> /\ rpc = "save_t" /\ result = NoResult

save_for_java_t ==
  /\ rpc = "save_t"
  /\ file_t' = save_for_java(G_a)
  /\ rpc' = "save_t1"
  /\ UNCHANGED <<file_t1, result, bvars, cvars, lvars, svars, pvars>>

save_for_java_t1 ==
  /\ rpc = "save_t1"
  /\ file_t1' = save_for_java(G_b)
  /\ rpc' = "call"
  /\ UNCHANGED <<file_t, result, bvars, cvars, lvars, svars, pvars>>

NextSeasons ==
  \/ save_for_java_t
  \/ save_for_java_t1
  \/ process_season_pair

SpecSeasons == InitSeasons /\ [][NextSeasons]_vars

\* -------------------------- process_all_clubs and generate_summary_report
\* clubs and seasons are numbered; the code has 5 clubs and 20 seasons
Clubs == 1..NumClubs
Seasons == 1..NumSeasons
Transitions == 1..(NumSeasons - 1)

\* a partnership of two players, the first with one match more
DuoLine(x, w) == EdgeLine(2 * x - 1, 2 * x, w, w + 1, w)

\* the graph file of club c for season s: c partnerships, the same ones in
\* every season but the last, with weights that grow with the season
SeasonFile(c, s) ==
  LET d == IF s = NumSeasons THEN 1 ELSE 0
  IN Header \o [x \in 1..c |-> DuoLine(x + d, s)]

\* the directories: absent; present without a file of the clubs; or present
\* with all files but at most MaxMissing of them, one of which may end in a
\* line that load_graph cannot read
Slots == Clubs \X Seasons

Dirs ==
  {NoDir}
  \cup {[present |-> TRUE, foreign |-> fo, files |-> <<>>] : fo \in BOOLEAN}
  \cup UNION {{[present |-> TRUE, foreign |-> FALSE,
                files |-> [sl \in Slots \ gone |->
                             IF sl \in bad
                             THEN Append(SeasonFile(sl[1], sl[2]), BadEdgeLine)
                             ELSE SeasonFile(sl[1], sl[2])]] :
                 bad \in {{}} \cup {{sl} : sl \in Slots \ gone}} :
              gone \in {g \in SUBSET Slots : Cardinality(g) <= MaxMissing}}

InitClubs ==
  /\ BuilderIdle /\ CalcIdle /\ RecordIdle
  /\ graphs_dir \in Dirs
  /\ ppc = "start" /\ ci = 1 /\ si = 1
  /\ club_results = <<>> /\ all_results = <<>> /\ written = <<>>
  /\ report = NoReport

\* graph_file.exists()
exists(dir, c, s) == <<c, s>> \in DOMAIN dir.files

\* line 212: either file of the pair is missing
skip_pair(dir, c, s) == ~exists(dir, c, s) \/ ~exists(dir, c, s + 1)

\* variant: the season loop is left
after_skip_break(s) == NumSeasons

\* line 214: continue with the next pair
after_skip(s) == s + 1

\* the dictionary that process_season_pair returns
comparison_record(c, s, r) ==
  [club |-> c, season_from |-> s, season_to |-> s + 1,
   v_score |-> r.v_score, e_score |-> r.e_score, stats |-> r.stats,
   players_left |-> r.players_left, players_joined |-> r.players_joined,
   edges_lost |-> r.edges_lost, edges_gained |-> r.edges_gained]

\* lines 180-191: [] is returned when the directory or its files are missing
process_all_clubs_enter ==
  /\ ppc = "start"
  /\ IF ~graphs_dir.present
        \/ (DOMAIN graphs_dir.files = {} /\ ~graphs_dir.foreign)
     THEN ppc' = "returned"
     ELSE ppc' = "pairs"
  /\ UNCHANGED <<graphs_dir, ci, si, club_results, all_results, written,
                 report, lvars, bvars, svars, cvars, rvars>>

\* lines 212-214
process_all_clubs_skip ==
  /\ ppc = "pairs" /\ si \in Transitions
  /\ skip_pair(graphs_dir, ci, si)
  /\ si' = after_skip(si)
  /\ UNCHANGED <<graphs_dir, ppc, ci, club_results, all_results, written,
                 report, lvars, bvars, svars, cvars, rvars>>

\* lines 216-219; an exception of process_season_pair is not caught
process_all_clubs_pair ==
  /\ ppc = "pairs" /\ si \in Transitions
  /\ ~skip_pair(graphs_dir, ci, si)
  /\ \E o \in Orders, u \in Orders :
       LET r == season_pair_record(graphs_dir.files[<<ci, si>>],
                                   graphs_dir.files[<<ci, si + 1>>], o, u)
       IN IF r.raised
          THEN /\ ppc' = "raised"
               /\ UNCHANGED <<si, club_results, all_results>>
          ELSE /\ club_results' =
                    Append(club_results, comparison_record(ci, si, r))
               /\ all_results' =
                    Append(all_results, comparison_record(ci, si, r))
               /\ si' = si + 1
               /\ ppc' = ppc
  /\ UNCHANGED <<graphs_dir, ci, written, report,
                 lvars, bvars, svars, cvars, rvars>>

\* lines 221-226: the club's file is written; then the next club
process_all_clubs_save ==
  /\ ppc = "pairs" /\ si \notin Transitions
  /\ written' = Upd(written, ci, club_results)
  /\ IF ci < NumClubs
     THEN ci' = ci + 1 /\ si' = 1 /\ club_results' = <<>> /\ ppc' = ppc
     ELSE ppc' = "all" /\ UNCHANGED <<ci, si, club_results>>
  /\ UNCHANGED <<graphs_dir, all_results, report,
                 lvars, bvars, svars, cvars, rvars>>

\* lines 228-236: all_dynamic_scores.json, filed under 0, and the return
process_all_clubs_return ==
  /\ ppc = "all"
  /\ written' = Upd(written, 0, all_results)
  /\ ppc' = "returned"
  /\ UNCHANGED <<graphs_dir, ci, si, club_results, all_results, report,
                 lvars, bvars, svars, cvars, rvars>>

\* variant: the list is taken in the order given
sort_asc_given(s, k) == s

\* sorted(results, key=...): stable, ascending
insert_asc(s, x, k) ==
  LET after == {n \in 1..Len(s) : s[n][k] > x[k]}
      at == IF after = {} THEN Len(s) + 1
            ELSE CHOOSE n \in after : \A q \in after : n <= q
  IN SubSeq(s, 1, at - 1) \o <<x>> \o SubSeq(s, at, Len(s))

RECURSIVE sort_asc_from(_, _, _)
sort_asc_from(st, s, k) ==
  IF st.n > Len(s) THEN st.acc
  ELSE sort_asc_from([acc |-> insert_asc(st.acc, s[st.n], k),
                      n |-> st.n + 1], s, k)

sort_asc(s, k) == sort_asc_from([acc |-> <<>>, n |-> 1], s, k)

\* a report entry: club, the two seasons of the transition, and the score
\* in thousandths
v_entries(rs) ==
  [x \in DOMAIN rs |-> <<rs[x].club, rs[x].season_from, rs[x].season_to,
                         rs[x].v_score.num>>]
e_entries(rs) ==
  [x \in DOMAIN rs |-> <<rs[x].club, rs[x].season_from, rs[x].season_to,
                         rs[x].e_score.num>>]

RECURSIVE sum_scores(_, _)
sum_scores(es, n) == IF n = 0 THEN 0 ELSE es[n][4] + sum_scores(es, n - 1)

\* round(sum(...) / len(results), 3), for a non-empty list
avg_score(es) == round3([num |-> sum_scores(es, Len(es)), den |-> 1000 * Len(es)])

report_of(rs) ==
  [written |-> TRUE,
   total_transitions |-> Len(rs),
   avg_v_score |-> avg_score(v_entries(rs)),
   avg_e_score |-> avg_score(e_entries(rs)),
   top_v_changes |-> first(sort_desc(v_entries(rs), 4), TopN),
   top_e_changes |-> first(sort_desc(e_entries(rs), 4), TopN),
   most_stable_v |-> first(sort_asc(v_entries(rs), 4), TopN),
   most_stable_e |-> first(sort_asc(e_entries(rs), 4), TopN)]

\* lines 322-323: the report of what process_all_clubs returned; no report
\* is written for an empty list
generate_summary_report ==
  /\ ppc = "returned"
  /\ report' = IF Len(all_results) = 0 THEN report ELSE report_of(all_results)
  /\ ppc' = "exit"
  /\ UNCHANGED <<graphs_dir, ci, si, club_results, all_results, written,
                 lvars, bvars, svars, cvars, rvars>>

NextClubs ==
  \/ process_all_clubs_enter
  \/ process_all_clubs_skip
  \/ process_all_clubs_pair
  \/ process_all_clubs_save
  \/ process_all_clubs_return
  \/ generate_summary_report

SpecClubs == InitClubs /\ [][NextClubs]_vars

\* --------------------------------- generate_summary_report on a given list
\* scores in thousandths
ScoreValues == {0, 500, 1000}

\* the record of the x-th transition of one club, with the given scores
result_of(x, v, e) ==
  comparison_record(1, x,
    [NoResult EXCEPT !.v_score = [num |-> v, den |-> 1000],
                     !.e_score = [num |-> e, den |-> 1000]])

\* the result lists of up to b transitions: both scores are 0.5 in every
\* record but at most two, whose scores are free
ResultLists(b) ==
  UNION {UNION {{[x \in 1..n |->
                    IF x \in P THEN result_of(x, sc[x][1], sc[x][2])
                    ELSE result_of(x, 500, 500)] :
                  sc \in [P -> ScoreValues \X ScoreValues]} :
               P \in {{}} \cup {{y, z} : y, z \in 1..n}} :
         n \in 0..b}

InitReport ==
  /\ BuilderIdle /\ CalcIdle /\ RecordIdle
  /\ graphs_dir = NoDir /\ ci = 1 /\ si = 1
  /\ club_results = <<>> /\ written = <<>>
  /\ all_results \in ResultLists(MaxResults)
  /\ ppc = "returned"
  /\ report = NoReport

NextReport == generate_summary_report

SpecReport == InitReport /\ [][NextReport]_vars

\* ---------------------------------------------------- builder: properties
RecordsWith(p) == {r \in 1..Len(matches) : p \in Range(matches[r].players)}

RECURSIVE SumSeq(_, _)
SumSeq(f, n) == IF n = 0 THEN 0 ELSE f[n] + SumSeq(f, n - 1)

\* sum of the weight attribute over Graph.edges()
TotalWeight(G) ==
  LET es == edges(G)
  IN SumSeq([x \in 1..Len(es) |-> G.weight[{es[x][1], es[x][2]}]], Len(es))

PairsOf(k) == (k * (k - 1)) \div 2

\* pairs of lineup positions the edge loop has handled so far
PairsHandled ==
  LET full == SumSeq([r \in 1..(mi - 1) |-> PairsOf(Len(matches[r].players))],
                     mi - 1)
      k == IF mi <= Len(matches) THEN Len(matches[mi].players) ELSE 0
      cur == IF pc = "edges"
             THEN SumSeq([a \in 1..(i - 1) |-> k - a], i - 1) + (j - i - 1)
             ELSE 0
  IN full + cur

OneEdgePerPair(G) ==
  LET es == edges(G)
  IN \A a, b \in 1..Len(es) :
       a # b => {es[a][1], es[a][2]} # {es[b][1], es[b][2]}

\* C1: after build_graph, every node's matches equals the number of match
\* records whose lineup contains the player (a record counts once even when
\* the name is listed more than once in it).
C1_MatchesCountsRecords ==
  pc = "done" =>
    \A p \in node_set(graph) : graph.matches[p] = Cardinality(RecordsWith(p))

\* C2: in every state reached while build_graph runs the graph is simple:
\* no self-loop, at most one edge per unordered pair, every weight >= 1.
C2_GraphSimple ==
  LET es == edges(graph)
  IN /\ \A x \in 1..Len(es) : es[x][1] # es[x][2]
     /\ OneEdgePerPair(graph)
     /\ \A e \in DOMAIN graph.weight : graph.weight[e] >= 1

\* C3: after build_graph, two distinct players are joined by an edge exactly
\* when some record's lineup contains both, and the weight is the number of
\* such records.
C3_WeightCountsRecords ==
  pc = "done" =>
    \A u, v \in Names :
      u # v =>
        LET n == Cardinality(RecordsWith(u) \cap RecordsWith(v))
        IN /\ has_edge(graph, u, v) <=> n >= 1
           /\ n >= 1 => graph.weight[{u, v}] = n

C4_PairStep ==
  pc = "edges" =>
    LET e == {matches[mi].players[i], matches[mi].players[j]}
        W == graph.weight
    IN /\ \/ /\ e \in DOMAIN W
             /\ DOMAIN W' = DOMAIN W
             /\ W'[e] = W[e] + 1
             /\ number_of_edges(graph') = number_of_edges(graph)
          \/ /\ e \notin DOMAIN W
             /\ DOMAIN W' = DOMAIN W \cup {e}
             /\ W'[e] = 1
             /\ number_of_edges(graph') = number_of_edges(graph) + 1
       /\ \A o \in DOMAIN W : o # e => W'[o] = W[o]

StageNo(st) ==
  CASE st = "v" -> 1 [] st = "e" -> 2 [] st = "players" -> 3
    [] st = "edges" -> 4 [] OTHER -> 5

\* call c has returned from the function of stage st
Computed(c, st) ==
  /\ cpc # "idle"
  /\ \/ call > c
     \/ call = c /\ StageNo(cpc) > StageNo(st)

InOne(P, Q) == (P /\ ~Q) \/ (Q /\ ~P)

Linked(G, e) == \E u, v \in e : e = {u, v} /\ has_edge(G, u, v)

Quotient(num, den) == IF den = 0 THEN Zero ELSE [num |-> num, den |-> den]

Names2(s) == {s[x][1] : x \in DOMAIN s}
Entries(s) == {<<{s[x][1], s[x][2]}, s[x][3]>> : x \in DOMAIN s}

\* C5: the V-Score is the number of names that are a node of exactly one of
\* the two graphs over the number that are a node of either, and exactly 0
\* (no division) when neither graph has a node.
C5_VScoreFormula ==
  \A c \in 1..2 :
    Computed(c, "v") =>
      LET one == {p \in CalcNames :
                    InOne(has_node(Arg_t(c), p), has_node(Arg_t1(c), p))}
          any == {p \in CalcNames :
                    has_node(Arg_t(c), p) \/ has_node(Arg_t1(c), p)}
      IN /\ out[c].v.den > 0
         /\ out[c].v = Quotient(Cardinality(one), Cardinality(any))

\* a roster that changed in part, compared in both directions
C5_Witness ==
  /\ Computed(2, "v")
  /\ out[1].v.num > 0 /\ out[1].v.num < out[1].v.den
  /\ out[2].v = out[1].v

\* C6: the E-Score is the number of unordered pairs linked in exactly one
\* graph over the number linked in either, whatever the orientation of the
\* stored edge tuples and whatever the weights; 0 when no graph has an edge.
C6_EScoreFormula ==
  \A c \in 1..2 :
    Computed(c, "e") =>
      LET one == {e \in PairsOver(CalcNames) :
                    InOne(Linked(Arg_t(c), e), Linked(Arg_t1(c), e))}
          any == {e \in PairsOver(CalcNames) :
                    Linked(Arg_t(c), e) \/ Linked(Arg_t1(c), e)}
      IN /\ out[c].e.den > 0
         /\ out[c].e = Quotient(Cardinality(one), Cardinality(any))

\* the same pair stored as (u, v) in one graph and (v, u) in the other, with
\* different weights, next to an edge only one graph has
C6_Witness ==
  /\ Computed(1, "e")
  /\ \E u, v \in CalcNames :
       /\ u # v
       /\ <<u, v>> \in Range(edges(G_a))
       /\ <<v, u>> \in Range(edges(G_b))
       /\ G_a.weight[{u, v}] # G_b.weight[{u, v}]
  /\ out[1].e.num = 1 /\ out[1].e.den = 2

\* C7: the scores of (G1, G2) and of (G2, G1) are equal, and the swapped call
\* returns the left/joined and lost/gained lists exchanged (as sets of
\* entries; an edge entry is its pair of players and its weight), failing
\* exactly when the first call fails.
C7_SwapSymmetry ==
  cpc = "end" =>
    /\ RatEq(out[1].v, out[2].v)
    /\ RatEq(out[1].e, out[2].e)
    /\ Range(out[1].players.left) = Range(out[2].players.joined)
    /\ Range(out[1].players.joined) = Range(out[2].players.left)
    /\ out[1].edgesc.raised = out[2].edgesc.raised
    /\ Entries(out[1].edgesc.lost) = Entries(out[2].edgesc.gained)
    /\ Entries(out[1].edgesc.gained) = Entries(out[2].edgesc.lost)

C7_Witness ==
  /\ cpc = "end"
  /\ out[1].v.num > 0 /\ out[1].v.num < out[1].v.den
  /\ out[1].e.num > 0 /\ out[1].e.num < out[1].e.den
  /\ Len(out[1].players.left) = 1 /\ Len(out[1].players.joined) = 1
  /\ out[1].players.left # out[1].players.joined
  /\ ~out[1].edgesc.raised
  /\ Len(out[1].edgesc.lost) = 1 /\ Len(out[1].edgesc.gained) = 1
  /\ Entries(out[1].edgesc.lost) # Entries(out[1].edgesc.gained)

\* C8: a graph with at least one node compared with itself has V-Score 0 and
\* E-Score 0, and the four change lists are empty.
C8_SelfComparison ==
  (Computed(1, "edges") /\ G_a = G_b /\ Len(G_a.node) >= 1) =>
    /\ out[1].v.num = 0 /\ out[1].v.den > 0
    /\ out[1].e.num = 0 /\ out[1].e.den > 0
    /\ out[1].players.left = <<>> /\ out[1].players.joined = <<>>
    /\ ~out[1].edgesc.raised
    /\ out[1].edgesc.lost = <<>> /\ out[1].edgesc.gained = <<>>

C8_Witness ==
  /\ Computed(1, "edges") /\ G_a = G_b
  /\ Len(G_a.node) >= 2 /\ number_of_edges(G_a) >= 2
  /\ out[1].v.num = 0 /\ out[1].e.num = 0
  /\ out[1].e.den = 2

\* C9: the lists of get_player_changes name exactly the players of G_t that
\* are not in G_t1 (left) and of G_t1 that are not in G_t (joined), each once,
\* so every player of either graph is in exactly one of left, joined, both.
C9_PlayerChangesPartition ==
  \A c \in 1..2 :
    Computed(c, "players") =>
      LET left == out[c].players.left
          joined == out[c].players.joined
          both == {p \in CalcNames :
                     has_node(Arg_t(c), p) /\ has_node(Arg_t1(c), p)}
      IN /\ Names2(left) = {p \in CalcNames :
                has_node(Arg_t(c), p) /\ ~has_node(Arg_t1(c), p)}
         /\ Names2(joined) = {p \in CalcNames :
                has_node(Arg_t1(c), p) /\ ~has_node(Arg_t(c), p)}
         /\ \A a, b \in DOMAIN left : a # b => left[a][1] # left[b][1]
         /\ \A a, b \in DOMAIN joined : a # b => joined[a][1] # joined[b][1]
         /\ \A p \in CalcNames :
              (has_node(Arg_t(c), p) \/ has_node(Arg_t1(c), p)) =>
                \/ p \in Names2(left) /\ p \notin Names2(joined) /\ p \notin both
                \/ p \notin Names2(left) /\ p \in Names2(joined) /\ p \notin both
                \/ p \notin Names2(left) /\ p \notin Names2(joined) /\ p \in both

C9_Witness ==
  /\ Computed(1, "players")
  /\ Len(out[1].players.left) = 1 /\ Len(out[1].players.joined) = 1
  /\ \E p \in CalcNames : has_node(G_a, p) /\ has_node(G_b, p)

NonIncreasing(s, k) == \A a, b \in DOMAIN s : a < b => s[a][k] >= s[b][k]

\* one of the two player lists of the record against its origin graph Go and
\* the other graph Gx
PlayerListOK(lst, Go, Gx) ==
  LET gone == {p \in node_set(Go) : ~has_node(Gx, p)}
  IN /\ \A x \in DOMAIN lst :
          /\ lst[x][1] \in gone
          /\ lst[x][2] = Go.matches[lst[x][1]]
     /\ NonIncreasing(lst, 2)
     /\ Len(lst) <= 10
     /\ \A p \in gone \ Names2(lst) :
          \A x \in DOMAIN lst : Go.matches[p] <= lst[x][2]

\* C10: in the record, players_left carries the matches of G_t and
\* players_joined those of G_t1; both are in non-increasing order of matches,
\* have at most 10 entries, and no omitted player has more matches than a
\* retained one.
C10_RecordPlayerLists ==
  rpc = "returned" =>
    /\ PlayerListOK(result.players_left,
                    load_graph(file_t), load_graph(file_t1))
    /\ PlayerListOK(result.players_joined,
                    load_graph(file_t1), load_graph(file_t))

\* more than 10 players left, with different matches counts among the
\* retained and one omitted
C10_Witness ==
  /\ rpc = "returned"
  /\ Len(result.players_left) = 10
  /\ Cardinality(node_set(load_graph(file_t))
                 \ node_set(load_graph(file_t1))) > 10
  /\ result.players_left[1][2] > result.players_left[10][2]
  /\ Len(result.players_joined) = 2

\* one of the two edge lists of the record against its origin graph Go and
\* the other graph Gx
EdgeListOK(lst, Go, Gx) ==
  LET gone == edge_set(Go) \ edge_set(Gx)
      kept == {{lst[x][1], lst[x][2]} : x \in DOMAIN lst}
  IN /\ \A x \in DOMAIN lst :
          /\ {lst[x][1], lst[x][2]} \in gone
          /\ lst[x][3] = Go.weight[{lst[x][1], lst[x][2]}]
     /\ Cardinality(kept) = Len(lst)
     /\ NonIncreasing(lst, 3)
     /\ Len(lst) = Min(Cardinality(gone), 10)
     /\ \A e \in gone \ kept : \A x \in DOMAIN lst : Go.weight[e] <= lst[x][3]

\* C11: in the record, edges_lost holds edges of G_t that G_t1 lacks and
\* edges_gained edges of G_t1 that G_t lacks, as unordered pairs; each entry
\* carries the weight of the graph that has the edge, both lists are in
\* non-increasing order of weight and have at most 10 entries (all of them
\* when there are no more than 10), and no omitted edge is heavier than a
\* retained one.
C11_RecordEdgeLists ==
  rpc = "returned" =>
    /\ EdgeListOK(result.edges_lost, load_graph(file_t), load_graph(file_t1))
    /\ EdgeListOK(result.edges_gained, load_graph(file_t1), load_graph(file_t))

\* more than 10 edges lost, of two different weights among the retained,
\* and an edge gained
C11_Witness ==
  /\ rpc = "returned"
  /\ Len(result.edges_lost) = 10
  /\ Cardinality(edge_set(load_graph(file_t))
                 \ edge_set(load_graph(file_t1))) > 10
  /\ result.edges_lost[1][3] > result.edges_lost[10][3]
  /\ Len(result.edges_gained) = 1

\* the two graphs of the worked example, with A, B, C, D as 1, 2, 3, 4
ExampleSeason_t(G) ==
  /\ node_set(G) = {1, 2, 3}
  /\ edge_set(G) = {{1, 2}} /\ G.weight[{1, 2}] = 2
ExampleSeason_t1(G) ==
  /\ node_set(G) = {1, 3, 4}
  /\ edge_set(G) = {{1, 3}} /\ G.weight[{1, 3}] = 1

\* C12: for the season t graph with nodes {A, B, C} and the edge A-B of
\* weight 2 and the season t+1 graph with nodes {A, C, D} and the edge A-C of
\* weight 1, compared through their exported files, the record has V-Score
\* 0.5, E-Score 1.0, players_left = [B], players_joined = [D],
\* edges_lost = [(A,B,2)] and edges_gained = [(A,C,1)].
C12_WorkedExample ==
  (rpc = "returned" /\ ExampleSeason_t(G_a) /\ ExampleSeason_t1(G_b)) =>
    /\ RatEq(result.v_score, [num |-> 1, den |-> 2])
    /\ RatEq(result.e_score, [num |-> 1, den |-> 1])
    /\ [x \in DOMAIN result.players_left |-> result.players_left[x][1]] = <<2>>
    /\ [x \in DOMAIN result.players_joined |-> result.players_joined[x][1]]
         = <<4>>
    /\ Len(result.edges_lost) = 1
    /\ {result.edges_lost[1][1], result.edges_lost[1][2]} = {1, 2}
    /\ result.edges_lost[1][3] = 2
    /\ Len(result.edges_gained) = 1
    /\ {result.edges_gained[1][1], result.edges_gained[1][2]} = {1, 3}
    /\ result.edges_gained[1][3] = 1

\* the node body run for a record that names one player
C13_SingleStep ==
  (pc = "nodes" /\ Len(matches[mi].players) = 1) =>
    LET p == matches[mi].players[1]
    IN /\ mi' = mi + 1 /\ pc' \in {"nodes", "done"}
       /\ node_set(graph') = node_set(graph) \cup {p}
       /\ number_of_nodes(graph') =
            number_of_nodes(graph) + (IF has_node(graph, p) THEN 0 ELSE 1)
       /\ graph'.matches[p] = get_matches(graph, p) + 1
       /\ \A q \in node_set(graph) \ {p} :
            graph'.matches[q] = graph.matches[q]
       /\ edges(graph') = edges(graph)
       /\ graph'.weight = graph.weight

\* C13: a record whose lineup names exactly one player is handled by one
\* node body, which adds the player as a node or increments its matches by
\* one and leaves every edge and every weight as they were; no pair body
\* runs for it, and build_graph goes on with the next record or ends.
C13_SingleLineup == [][C13_SingleStep]_vars

\* build_graph has ended on records that include a one-player lineup whose
\* player has no neighbour, next to a partnership of other players
C13_Witness ==
  /\ pc = "done"
  /\ \E r \in DOMAIN matches :
       /\ Len(matches[r].players) = 1
       /\ has_node(graph, matches[r].players[1])
       /\ graph.adj[matches[r].players[1]] = <<>>
       /\ graph.matches[matches[r].players[1]] = 1
  /\ number_of_edges(graph) = 1

\* the names written on the PLAYERS: lines of the file
WrittenNames == UNION {Range(lines[x].names) : x \in DOMAIN lines}

\* C14: after load_data and build_graph, every node of the graph is a name
\* written on a PLAYERS: line: a match with an empty lineup, or with no
\* PLAYERS: line, has added no node and no edge.
C14_EmptyLineupAddsNothing ==
  pc = "done" =>
    /\ node_set(graph) \subseteq WrittenNames
    /\ \A e \in edge_set(graph) : e \subseteq WrittenNames

\* what load_graph makes of the file written for G
RoundTripOK(G, f) ==
  LET L == load_graph(f)
  IN /\ edge_set(L) = edge_set(G)
     /\ number_of_edges(L) = number_of_edges(G)
     /\ \A e \in edge_set(G) : L.weight[e] = G.weight[e]
     /\ node_set(L) = {p \in node_set(G) : G.adj[p] # <<>>}
     /\ \A p \in node_set(L) : L.matches[p] = G.matches[p]
     /\ DOMAIN L.matches = node_set(L)

C19_DegreeCentrality ==
  pc \in {"stats", "saved"} =>
    LET n == number_of_nodes(graph)
        c == statistics.degree_centrality
    IN /\ DOMAIN c = node_set(graph)
       /\ \A p \in node_set(graph) :
            IF n > 1
            THEN RatEq(c[p], [num |-> degree(graph, p), den |-> n - 1])
            ELSE RatEq(c[p], Zero)

\* the names of all lineups in the order the node loop meets them, and the
\* pairs in the order the pair loop meets them
RECURSIVE Listed(_, _)
Listed(ms, m) ==
  IF m > Len(ms) THEN <<>> ELSE ms[m].players \o Listed(ms, m + 1)

RECURSIVE PairsFrom(_, _, _)
PairsFrom(l, a, b) ==
  IF a >= Len(l) THEN <<>>
  ELSE IF b > Len(l) THEN PairsFrom(l, a + 1, a + 2)
  ELSE <<{l[a], l[b]}>> \o PairsFrom(l, a, b + 1)

RECURSIVE Paired(_, _)
Paired(ms, m) ==
  IF m > Len(ms) THEN <<>>
  ELSE PairsFrom(ms[m].players, 1, 2) \o Paired(ms, m + 1)

\* the first place of x in a sequence that holds it
FirstAt(s, x) == CHOOSE n \in DOMAIN s : s[n] = x /\ \A q \in 1..(n - 1) : s[q] # x

\* the place of an edge in Graph.edges()
EdgeAt(G, e) ==
  LET es == edges(G)
  IN CHOOSE n \in DOMAIN es : frozenset(es[n]) = e

\* the top-players view: nodes with their matches, in non-increasing order,
\* equal matches in the order the players were first listed
TopPlayersOK ==
  LET tp == statistics.top_players
  IN /\ Len(tp) = Min(number_of_nodes(graph), TopPlayers)
     /\ \A x \in DOMAIN tp :
          has_node(graph, tp[x][1]) /\ tp[x][2] = graph.matches[tp[x][1]]
     /\ NonIncreasing(tp, 2)
     /\ \A a, b \in DOMAIN tp :
          (a < b /\ tp[a][2] = tp[b][2]) =>
            FirstAt(Listed(matches, 1), tp[a][1])
              < FirstAt(Listed(matches, 1), tp[b][1])

\* the top-partnerships view: edges with their weights, in non-increasing
\* order
TopEdgesOK ==
  LET te == statistics.top_edges
  IN /\ Len(te) = Min(number_of_edges(graph), TopPairs)
     /\ \A x \in DOMAIN te :
          /\ {te[x][1], te[x][2]} \in edge_set(graph)
          /\ te[x][3] = graph.weight[{te[x][1], te[x][2]}]
     /\ NonIncreasing(te, 3)

\* C20 as stated: the top-players view lists nodes in non-increasing order
\* of matches, equal matches in the order of first insertion; the
\* top-partnerships view lists edges in non-increasing order of weight, equal
\* weights in the order in which the edges were first inserted.
C20_StableRanking ==
  pc \in {"stats", "saved"} =>
    /\ TopPlayersOK
    /\ TopEdgesOK
    /\ LET te == statistics.top_edges
       IN \A a, b \in DOMAIN te :
            (a < b /\ te[a][3] = te[b][3]) =>
              FirstAt(Paired(matches, 1), {te[a][1], te[a][2]})
                < FirstAt(Paired(matches, 1), {te[b][1], te[b][2]})

\* C20 amended: as above for the players; edges of equal weight appear in
\* the order in which Graph.edges() lists them (by the insertion order of
\* their first endpoint, then by the order in which that node got its
\* neighbours).
C20_StableRankingEdgeOrder ==
  pc \in {"stats", "saved"} =>
    /\ TopPlayersOK
    /\ TopEdgesOK
    /\ LET te == statistics.top_edges
       IN \A a, b \in DOMAIN te :
            (a < b /\ te[a][3] = te[b][3]) =>
              EdgeAt(graph, {te[a][1], te[a][2]})
                < EdgeAt(graph, {te[b][1], te[b][2]})

\* players of equal matches are ranked, and two edges of equal weight are
\* ranked against the order in which they were inserted
C20_Witness ==
  /\ pc = "stats"
  /\ \E a, b \in DOMAIN statistics.top_players :
       a < b /\ statistics.top_players[a][2] = statistics.top_players[b][2]
  /\ \E a, b \in DOMAIN statistics.top_players :
       statistics.top_players[a][2] > statistics.top_players[b][2]
  /\ LET te == statistics.top_edges
     IN \E a, b \in DOMAIN te :
          /\ a < b /\ te[a][3] = te[b][3]
          /\ FirstAt(Paired(matches, 1), {te[a][1], te[a][2]})
               > FirstAt(Paired(matches, 1), {te[b][1], te[b][2]})

\* the clubs' transitions whose two graph files both exist, in the order of
\* the clubs and, within a club, of the seasons
RECURSIVE ExpectedFrom(_, _)
ExpectedFrom(c, s) ==
  IF c > NumClubs THEN <<>>
  ELSE IF s > NumSeasons - 1 THEN ExpectedFrom(c + 1, 1)
  ELSE (IF <<c, s>> \in DOMAIN graphs_dir.files
           /\ <<c, s + 1>> \in DOMAIN graphs_dir.files
        THEN <<(<<c, s, s + 1>>)>> ELSE <<>>) \o ExpectedFrom(c, s + 1)

TransitionsOf(rs) ==
  [x \in DOMAIN rs |-> <<rs[x].club, rs[x].season_from, rs[x].season_to>>]

\* C16: what process_all_clubs returns has exactly one record for each
\* club and pair of adjacent seasons whose two graph files exist, none for a
\* pair with a missing file, club by club and in increasing season order
\* within a club; a skipped pair does not keep later pairs from being
\* processed.
C16_OneRecordPerExistingPair ==
  ppc \in {"returned", "exit"} =>
    TransitionsOf(all_results) = ExpectedFrom(1, 1)

\* a club's first season is missing: its first pair is skipped and its next
\* pair is in the returned list
C16_Witness ==
  /\ ppc = "returned"
  /\ \E c \in Clubs :
       /\ <<c, 1>> \notin DOMAIN graphs_dir.files
       /\ \E x \in DOMAIN all_results :
            all_results[x].club = c /\ all_results[x].season_from = 2
  /\ Len(all_results) = NumClubs * (NumSeasons - 1) - 1

\* the transitions of one club whose two graph files both exist
ExpectedOf(c) ==
  LET all == ExpectedFrom(1, 1)
      own == {x \in DOMAIN all : all[x][1] = c}
  IN [y \in 1..Cardinality(own) |->
        all[CHOOSE x \in own : Cardinality({z \in own : z <= x}) = y]]

\* C17: when the processing of one club raises, every other club's result
\* file is still written, with a record for each of its transitions whose
\* files exist.
C17_OtherClubsUnaffected ==
  ppc = "raised" =>
    \A c \in Clubs \ {ci} :
      /\ c \in DOMAIN written
      /\ TransitionsOf(written[c]) = ExpectedOf(c)

\* the pairs that the season loops skip for a missing file
SkippedPairs ==
  {<<c, s, s + 1>> : c \in Clubs, s \in Transitions} \ Range(ExpectedFrom(1, 1))

\* the transitions named anywhere in the summary report
ReportNames(rep) ==
  UNION {{<<l[x][1], l[x][2], l[x][3]>> : x \in DOMAIN l} :
           l \in {rep.top_v_changes, rep.top_e_changes,
                   rep.most_stable_v, rep.most_stable_e}}

\* C18: once the season loops have run to their end and the summary report
\* step has run, every pair that was skipped for a missing file is named in
\* the summary report.
C18_SkippedPairsReported ==
  (ppc = "exit" /\ 0 \in DOMAIN written) =>
    \A t \in SkippedPairs : report.written /\ t \in ReportNames(report)

\* a PLAYERS: line is a well-formed record when it names at least one player
\* and is the first PLAYERS: line after its MATCH: header, with nothing but
\* ignored lines between the two
HeaderBefore(x) ==
  \E y \in 1..(x - 1) :
    /\ lines[y].kind = "MATCH"
    /\ \A z \in (y + 1)..(x - 1) : lines[z].kind = "#"
WellFormedAt(x) ==
  /\ lines[x].kind = "PLAYERS"
  /\ lines[x].names # <<>>
  /\ HeaderBefore(x)
WellFormedRecords ==
  LET at == SelectSeq([x \in 1..Len(lines) |-> x], WellFormedAt)
  IN [k \in 1..Len(at) |-> [players |-> lines[at[k]].names]]

\* C21: load_data followed by build_graph leaves the graph that the
\* well-formed records alone would give: a record with a missing header or
\* an empty lineup contributes nothing and changes no other record, and a
\* text with no well-formed record leaves a graph of 0 nodes and 0 edges.
C21_MalformedDropped ==
  (pc = "done" /\ run = 1) => graph = build_graph(WellFormedRecords)

NonDecreasing(s, k) == \A a, b \in DOMAIN s : a < b => s[a][k] <= s[b][k]

\* lst holds Min(Len(es), TopN) different entries of es
PickedFrom(lst, es) ==
  /\ Len(lst) = Min(Len(es), TopN)
  /\ Range(lst) \subseteq Range(es)
  /\ Cardinality(Range(lst)) = Len(lst)

\* lst is the at most TopN entries of es with the largest scores, largest
\* first
LargestOf(lst, es) ==
  /\ PickedFrom(lst, es)
  /\ NonIncreasing(lst, 4)
  /\ \A y \in Range(es) \ Range(lst) : \A x \in Range(lst) : y[4] <= x[4]

\* lst is the at most TopN entries of es with the smallest scores, smallest
\* first
SmallestOf(lst, es) ==
  /\ PickedFrom(lst, es)
  /\ NonDecreasing(lst, 4)
  /\ \A y \in Range(es) \ Range(lst) : \A x \in Range(lst) : y[4] >= x[4]

\* C22: for a non-empty result list the summary report has
\* total_transitions equal to the number of records, top_v_changes and
\* top_e_changes hold the at most 10 records of largest v_score / e_score,
\* largest first, and most_stable_v and most_stable_e the at most 10 records
\* of smallest v_score / e_score, smallest first; for an empty list no
\* report is written.
C22_SummaryReport ==
  ppc = "exit" =>
    IF Len(all_results) = 0 THEN report = NoReport
    ELSE /\ report.written
         /\ report.total_transitions = Len(all_results)
         /\ LargestOf(report.top_v_changes, v_entries(all_results))
         /\ LargestOf(report.top_e_changes, e_entries(all_results))
         /\ SmallestOf(report.most_stable_v, v_entries(all_results))
         /\ SmallestOf(report.most_stable_e, e_entries(all_results))

\* more than ten records, the last with the largest v_score and the
\* smallest e_score: it leads top_v_changes and most_stable_e, and a record
\* is cut from each ranking
C22_Witness ==
  /\ ppc = "exit" /\ report.written
  /\ Len(all_results) > TopN
  /\ all_results[Len(all_results)].v_score.num = 1000
  /\ all_results[Len(all_results)].e_score.num = 0
  /\ report.top_v_changes[1][2] = Len(all_results)
  /\ report.most_stable_e[1][2] = Len(all_results)
  /\ Len(report.top_v_changes) = TopN /\ Len(report.most_stable_v) = TopN

\* C23: when load_data and build_graph have run again on the same
\* FootballGraphBuilder over the same file, the graph has the nodes, matches
\* counts, edges and weights that the first run left.
C23_RerunSameGraph ==
  (pc = "done" /\ run > 1) => graph = first_graph

\* C24: no call of calculate_v_dynamic_score, calculate_e_dynamic_score,
\* get_player_changes or get_edge_changes changes either graph: the nodes,
\* their matches attributes, the edges and their weights stay as they were.
C24_GraphsUnchanged == [][G_a' = G_a /\ G_b' = G_b]_vars

\* all four functions have been called both ways round on two graphs that
\* differ in players and in partnerships, and the lists were filled from
\* the graphs' attributes
C24_Witness ==
  /\ cpc = "end"
  /\ out[1].players.left # <<>> /\ out[1].players.joined # <<>>
  /\ out[1].edgesc.lost # <<>> /\ out[1].edgesc.gained # <<>>
  /\ out[1].players.left[1][2] = G_a.matches[out[1].players.left[1][1]]
  /\ out[2].edgesc.lost[1][3] =
       G_b.weight[{out[2].edgesc.lost[1][1], out[2].edgesc.lost[1][2]}]

\* C25: for the files that save_for_java writes from two built seasons,
\* process_season_pair returns a record, and every entry of its edges_lost
\* and edges_gained names two different players.
C25_RecordForBuiltSeasons ==
  rpc \notin {"save_t", "save_t1", "call"} =>
    /\ rpc = "returned"
    /\ \A l \in {result.edges_lost, result.edges_gained} :
         \A x \in DOMAIN l : l[x][1] # l[x][2]

\* C26: in load_data a PLAYERS: line read while a match is current appends
\* one record holding the players of that line and leaves the records
\* appended before as they are; no other line changes self.matches.
C26_AppendedRecordsKept ==
  [][pc = "load" =>
       IF li <= Len(lines) /\ lines[li].kind = "PLAYERS" /\ current_match.set
       THEN matches' =
              Append(matches, [players |-> split_players(lines[li].names)])
       ELSE matches' = matches]_vars
====
